---- MODULE Spec2Model ----
(***************************************************************************)
(* Model of the execution-companion bot (src/bot.py): the SQLite tables it *)
(* keeps, the per-user scratch dict ctx.user_data, and one action per      *)
(* handler of the command / callback / text routers.                       *)
(*                                                                         *)
(* Conventions                                                             *)
(*  - A table is a sequence of rows; a row's AUTOINCREMENT id is its       *)
(*    index.  Rows of steps and mainlines are never deleted.  None is 0.   *)
(*  - created_at is datetime('now'), which has a resolution of one second, *)
(*    and is only ever compared between rows of one table.  A row's ts is  *)
(*    the rank of its second among the seconds in which its table got a    *)
(*    row; `second` holds, per table, the rank of the current second (0    *)
(*    while the table got no row in it).  Turns that run before the next   *)
(*    Tick fall in the same second (updates queued while the process was   *)
(*    down are handled back to back), so the rows they insert tie.         *)
(*    "ORDER BY created_at DESC LIMIT 1" returns one of the rows with the  *)
(*    greatest created_at; which one, among ties, the query does not fix,  *)
(*    so a lookup is a choice among them.                                  *)
(*  - Text is a sequence of tokens; "," stands for the full-width comma    *)
(*    and "." for the full-width stop the code splits instructions on.     *)
(*  - The generator's answer to a content request is an input of the turn: *)
(*    "fallback" (no client, an exception, or the top-level key missing),  *)
(*    "valid" (every field present) or "malformed" (the top-level key is   *)
(*    present but a field under it is missing, which the llm_* functions   *)
(*    return unchecked; the handler then raises and the turn is aborted    *)
(*    with the writes it had committed so far).                            *)
(*  - ev is the last turn handled: its handler, its branch and the inline  *)
(*    keyboard of the message it left in the chat (a turn that is aborted  *)
(*    or returns silently leaves the previous keyboard in place).          *)
(*  - faults counts the aborted turns and the restarts, which the model    *)
(*    bounds; dawn is a history variable: each user's streak when the day  *)
(*    began.  No handler reads either.                                     *)
(*                                                                         *)
(* Specifications                                                          *)
(*  - Spec: one user who follows the conversation (sends /today or a text  *)
(*    at any time, and otherwise presses a button of the latest message,   *)
(*    one turn a second), over every handler of the progression flow.      *)
(*  - SpecStale: callbacks of older messages arrive too (any button, in    *)
(*    any state, several turns a second, across a restart), over the       *)
(*    entry, start, complete and exit handlers.                            *)
(*  - SpecReview: the review flow with repeated presses, across days.      *)
(*  - SpecCand: candidate selection over every small task pool.            *)
(***************************************************************************)
EXTENDS Integers, Sequences, FiniteSets, TLC

VARIABLES
    today,      \* date.today(), as a day number
    second,     \* per table: the rank of the current second, or 0
    users,      \* users table: uid -> [low, streak, last]
    goals,      \* goals table
    phases,     \* phases table
    tasks,      \* task_items table
    mainlines,  \* mainlines table
    steps,      \* steps table
    links,      \* deferred_links table
    stuck,      \* stuck_events table
    evidence,   \* evidence table
    plans,      \* if_then_plans table, as the set of (user, date) it holds
    ctx,        \* ctx.user_data: uid -> scratch dict
    ev,         \* the last turn: handler, user, branch, keyboard left
    faults,     \* how many turns were aborted, how often the process restarted
    dawn,       \* history: uid -> streak_days when today began
    reply,      \* the last request made of the broker and what it returned
    running     \* update_streak calls in progress: position and locals

vars == <<today, second, users, goals, phases, tasks, mainlines, steps, links,
          stuck, evidence, plans, ctx, ev, faults, dawn, reply, running>>

store == <<users, goals, phases, tasks, mainlines, steps, links, stuck,
           evidence, plans>>

----------------------------------------------------------------------------
(* Bounds of the model *)

MaxSteps == 3
MaxMainlines == 2
MaxLinks == 2
MaxStuck == 1
MaxEvidence == 3
MaxDay == 2
MaxTasks == 3
MaxAborted == 1     \* turns aborted by an exception
MaxRestarts == 1    \* process restarts
MaxGoals == 2
MaxPhases == 4
MaxStamp == 3

(* Program constants *)

TitleCut == 20      \* mainline_title[:20] in the fallback instructions
ExcerptCut == 40    \* step['instruction'][:40] in the evidence text
ShrinkMinutes == 2  \* duration of a shrunk step
MicroMinutes == 2   \* duration_min of a micro step
UpgradeMinutes == 8 \* duration_min of an upgrade step

None == 0
UserIds == {1, 2}
Live == {"ready", "executing"}
Emotions == {"anxious"}
StuckTypes == {"PERFECTIONISM"}
ReviewTags == {"OVERTHINKING"}
Texts == {<<"essay">>}
TaskStatuses == {"not_started", "in_progress", "completed", "dropped"}
GenOutcomes == {"fallback", "valid", "partial", "malformed"}
\* What a turn of the state machine draws: the handlers copy the fields of
\* a complete object wherever it came from, so the fallback stands for it.
TurnOutcomes == {"fallback", "malformed"}

Min(a, b) == IF a < b THEN a ELSE b
Cut(s, n) == SubSeq(s, 1, Min(Len(s), n))
Ids(table) == DOMAIN table

----------------------------------------------------------------------------
(* Store reads *)

\* ORDER BY created_at DESC LIMIT 1 over the rows `among` of `table`.
Latest(table, among) ==
    {i \in among : \A j \in among : table[j].ts <= table[i].ts}

get_active_goal(uid) ==
    Latest(goals, {g \in Ids(goals) : goals[g].uid = uid /\ goals[g].active})

get_active_phase(gid) ==
    {p \in Ids(phases) : phases[p].goal = gid /\ phases[p].active}

list_tasks(pid, status) ==
    SelectSeq([i \in Ids(tasks) |-> [id |-> i, row |-> tasks[i]]],
              LAMBDA t : t.row.phase = pid /\ t.row.status = status)

get_today_mainline(uid) ==
    Latest(mainlines, {m \in Ids(mainlines) :
                          mainlines[m].uid = uid /\ mainlines[m].date = today})

get_active_step(mid) ==
    Latest(steps, {s \in Ids(steps) :
                      steps[s].ml = mid /\ steps[s].status \in Live})

\* A lookup that finds no deferred link (C10 does not hold of it).
no_deferred(uid) == {}

get_deferred(uid) ==
    Latest(links, {l \in Ids(links) :
                      /\ links[l].uid = uid
                      /\ links[l].step \in Ids(steps)
                      /\ links[l].ml \in Ids(mainlines)})

UserLinks(uid) == {l \in Ids(links) : links[l].uid = uid}

mainline_title(mid) ==
    IF mid \in Ids(mainlines) THEN mainlines[mid].title ELSE <<"task">>

----------------------------------------------------------------------------
(* Rules layer: candidate selection *)

BootstrapA == [title |-> <<"build_pool_5">>, task |-> None]
BootstrapB == [title |-> <<"build_pool_3">>, task |-> None]

\* The phase the selection works on: the one passed in, else the active
\* phase of the user's current goal, else None.
resolve_phase(uid, phase_id) ==
    IF phase_id # None THEN {phase_id}
    ELSE LET ps == UNION {get_active_phase(g) : g \in get_active_goal(uid)}
         IN  IF ps = {} THEN {None} ELSE ps

\* Candidate selection whose B always repeats A's task (C8 does not hold
\* of it).
candidates_repeat_primary(pid) ==
    LET ip == list_tasks(pid, "in_progress")
        ns == list_tasks(pid, "not_started")
        all_t == ip \o ns
    IN  IF pid = None \/ all_t = <<>>
        THEN [A |-> BootstrapA, B |-> BootstrapB]
        ELSE LET primary == IF ip # <<>> THEN ip[1] ELSE ns[1]
             IN  [A |-> [title |-> <<"advance">> \o primary.row.title,
                         task |-> primary.id],
                  B |-> [title |-> primary.row.title \o <<"minimal_start">>,
                         task |-> primary.id]]

\* Candidate selection that lists not_started tasks before in_progress ones
\* (C9 does not hold of it).
candidates_not_started_first(pid) ==
    LET ip == list_tasks(pid, "in_progress")
        ns == list_tasks(pid, "not_started")
        all_t == ns \o ip
    IN  IF pid = None \/ all_t = <<>>
        THEN [A |-> BootstrapA, B |-> BootstrapB]
        ELSE LET primary == all_t[1]
                 others == SelectSeq(all_t, LAMBDA t : t.id # primary.id)
             IN  [A |-> [title |-> <<"advance">> \o primary.row.title,
                         task |-> primary.id],
                  B |-> IF others # <<>>
                        THEN [title |-> <<"light">> \o others[1].row.title,
                              task |-> others[1].id]
                        ELSE [title |-> primary.row.title \o <<"minimal_start">>,
                              task |-> primary.id]]

\* Lines 601-620: the pair for a resolved phase.
candidates_of(pid) ==
    LET ip == list_tasks(pid, "in_progress")
        ns == list_tasks(pid, "not_started")
        all_t == ip \o ns
    IN  IF pid = None \/ all_t = <<>>
        THEN [A |-> BootstrapA, B |-> BootstrapB]
        ELSE LET primary == IF ip # <<>> THEN ip[1] ELSE ns[1]
                 others == SelectSeq(all_t, LAMBDA t : t.id # primary.id)
                 a == [title |-> <<"advance">> \o primary.row.title,
                       task |-> primary.id]
                 b == IF others # <<>>
                      THEN [title |-> <<"light">> \o others[1].row.title,
                            task |-> others[1].id]
                      ELSE [title |-> primary.row.title \o <<"minimal_start">>,
                            task |-> primary.id]
             IN  [A |-> a, B |-> b]

\* A selection that hands the pair back swapped in low-energy mode (C18
\* does not hold of it).
choose_candidates_by_energy(uid, phase_id, low_energy) ==
    {IF low_energy
     THEN [A |-> candidates_of(p).B, B |-> candidates_of(p).A]
     ELSE candidates_of(p) : p \in resolve_phase(uid, phase_id)}

\* The pairs choose_candidates may return (one, unless the phase lookup ties).
choose_candidates(uid, phase_id, low_energy) ==
    {candidates_of(p) : p \in resolve_phase(uid, phase_id)}

----------------------------------------------------------------------------
(* Content layer: what the llm_* functions hand to the handlers *)

\* The fields a handler reads from a step object with ms["..."].
StepFields == {"dur", "instr", "crit"}
Complete(obj) == StepFields \subseteq DOMAIN obj

\* llm_micro_step: the "micro_step" object handed back (unchecked when the
\* generator supplied it).
llm_micro_step(outcome, title) ==
    CASE outcome = "fallback" ->
           [dur |-> MicroMinutes,
            instr |-> <<"open">> \o Cut(title, TitleCut)
                        \o <<"material", ",", "find_your_place", ".">>,
            crit |-> "material_open"]
      [] outcome = "valid" ->
           [dur |-> MicroMinutes,
            instr |-> <<"read_chapter_1", ",", "write_summary">>,
            crit |-> "generated"]
      [] OTHER -> [dur |-> MicroMinutes]

\* llm_upgrade_step: the "step" object handed back.
llm_upgrade_step(outcome, title) ==
    CASE outcome = "fallback" ->
           [dur |-> UpgradeMinutes,
            instr |-> <<"continue">> \o Cut(title, TitleCut)
                        \o <<"finish_next_section", ".">>,
            crit |-> "one_sentence"]
      [] outcome = "valid" ->
           [dur |-> UpgradeMinutes,
            instr |-> <<"do_exercises", ".">>,
            crit |-> "generated"]
      [] OTHER -> [dur |-> UpgradeMinutes]

\* llm_intervention's restart_step as the st_ branch reads it: the fallback
\* table's entry, the generated one, the defaults of rs.get when the key is
\* absent ("partial"), or a null restart_step ("malformed").
restart_step(outcome, st) ==
    CASE outcome = "fallback" ->
           IF st = "PERFECTIONISM"
           THEN [dur |-> MicroMinutes,
                 instr |-> <<"write_3_words", ".", "no_edits", ".">>,
                 crit |-> "3_words"]
           ELSE [dur |-> MicroMinutes,
                 instr |-> <<"write_i_can_try", ".">>,
                 crit |-> "sentence_written"]
      [] outcome = "valid" ->
           [dur |-> MicroMinutes,
            instr |-> <<"open_the_file", ".">>,
            crit |-> "generated"]
      [] outcome = "partial" ->
           [dur |-> MicroMinutes,
            instr |-> <<"do_one_minimal_action">>,
            crit |-> "moved"]
      [] OTHER -> [null |-> TRUE]

\* llm_if_then: the "plan" object handed back.
llm_if_then(outcome) ==
    CASE outcome = "fallback" ->
           [if_trigger |-> "if_i_hesitate", then_action |-> "do_2_minutes",
            reward |-> "rest_3_minutes"]
      [] outcome = "valid" ->
           [if_trigger |-> "generated", then_action |-> "generated",
            reward |-> "generated"]
      [] outcome = "partial" -> [if_trigger |-> "generated"]
      [] OTHER -> [null |-> TRUE]

\* llm_intervention: the object handed back, which is the generator's
\* whenever it has the key "intervention_text".
llm_intervention(outcome, st) ==
    CASE outcome \in {"fallback", "valid"} ->
           [body_reset |-> outcome, intervention_text |-> outcome,
            restart_step |-> restart_step(outcome, st), push_line |-> outcome]
      [] outcome = "partial" -> [intervention_text |-> "generated"]
      [] OTHER -> [intervention_text |-> "generated",
                   restart_step |-> restart_step(outcome, st)]

Kinds == {"micro_step", "upgrade_step", "if_then_plan", "intervention"}

\* The content a request of kind `kind` gets under generator outcome
\* `outcome`; arg is the mainline title, or the stuck type.
request(kind, outcome, arg) ==
    CASE kind = "micro_step" -> llm_micro_step(outcome, arg)
      [] kind = "upgrade_step" -> llm_upgrade_step(outcome, arg)
      [] kind = "if_then_plan" -> llm_if_then(outcome)
      [] OTHER -> llm_intervention(outcome, arg)

NoReply == [kind |-> "", outcome |-> "", arg |-> <<>>, content |-> <<>>]

\* What the generator may answer to one attempt: an API error, text that
\* is not JSON, a JSON object without the key of the kind, an object with
\* the key whose value lacks fields ("partial", "malformed"), or a full one.
Responses == {"error", "not_json", "no_key", "partial", "malformed", "valid"}

\* _call_llm over the answers to its attempts: the number of calls made and
\* the object returned ("none": no object).  Without a client no call is
\* made; an attempt that raises (API error, json.loads) is followed by the
\* next one; the first object parsed is returned, whatever its keys.
call_llm(client, answers) ==
    IF ~client THEN [calls |-> 0, r |-> "none"]
    ELSE IF answers[1] \notin {"error", "not_json"}
    THEN [calls |-> 1, r |-> answers[1]]
    ELSE IF answers[2] \notin {"error", "not_json"}
    THEN [calls |-> 2, r |-> answers[2]]
    ELSE [calls |-> 2, r |-> "none"]

\* The check `if r and "<key>" in r` of the llm_* functions: the object is
\* handed on when it has the key, else the fallback is.
Outcome(r) == IF r \in {"none", "no_key"} THEN "fallback" ELSE r

\* The shrink branch: the first clause of an instruction and its wrapper.
IndexOf(s, tok) ==
    IF \E i \in DOMAIN s : s[i] = tok
    THEN CHOOSE i \in DOMAIN s : s[i] = tok /\ \A j \in 1..(i-1) : s[j] # tok
    ELSE Len(s) + 1

\* A cut at the first full stop, whether or not there is a comma (C30
\* does not hold of it).
first_sentence(instr) == SubSeq(instr, 1, IndexOf(instr, ".") - 1)

first_clause(instr) ==
    IF \E i \in DOMAIN instr : instr[i] = ","
    THEN SubSeq(instr, 1, IndexOf(instr, ",") - 1)
    ELSE SubSeq(instr, 1, IndexOf(instr, ".") - 1)

shrink_instruction(instr) ==
    <<"only_one_thing:">> \o first_clause(instr) \o <<".", "done_is_a_win", ".">>

----------------------------------------------------------------------------
(* Store writes and the scratch dict *)

Table(name) ==
    CASE name = "mainlines" -> mainlines
      [] name = "steps" -> steps
      [] OTHER -> links

MaxTs(table) ==
    IF table = <<>> THEN 0
    ELSE CHOOSE n \in {table[i].ts : i \in Ids(table)} :
            \A i \in Ids(table) : table[i].ts <= n

\* The created_at of a row inserted now.
Stamp(name) ==
    IF second[name] # 0 THEN second[name] ELSE MaxTs(Table(name)) + 1

\* The clock after a turn that inserted into the tables `names` and left
\* the table `links` as `links_after`.
Clock(names, links_after) ==
    [t \in DOMAIN second |->
        LET r == IF t \in names THEN Stamp(t) ELSE second[t]
        IN  IF t = "links" /\ \A l \in Ids(links_after) : links_after[l].ts # r
            THEN 0 ELSE r]

\* update_streak calls that may be in progress at once, and a call that is
\* not: its position, its argument uid and its locals u (the row read) and
\* today.
Workers == {1, 2}
Idle == [pc |-> "idle", uid |-> None,
         u |-> [low |-> FALSE, streak |-> 0, last |-> None], today |-> None]

get_user(uid) == users[uid]

\* An UPDATE that adds one to the stored streak_days instead of storing the
\* number it is given (C35 does not hold of it).
increment_user(uid, streak_days, last_progress_date) ==
    [users EXCEPT ![uid].streak = @ + 1, ![uid].last = last_progress_date]

update_user(uid, streak_days, last_progress_date) ==
    [users EXCEPT ![uid].streak = streak_days,
                  ![uid].last = last_progress_date]

NoCtx == [step_id |-> None, ml_id |-> None, cands |-> <<>>, rtag |-> "",
          emo |-> "", awaiting |-> ""]

Turn(op, uid, branch, kb) ==
    [op |-> op, u |-> uid, branch |-> branch, kb |-> kb]

create_mainline(uid, title, task_id_ref) ==
    Append(mainlines, [uid |-> uid, date |-> today, title |-> title,
                       task |-> task_id_ref, ts |-> Stamp("mainlines")])

\* An insert that first closes the live steps of the mainline (C27 does
\* not hold of it).
create_step_closing(table, mainline_id, kind, obj) ==
    Append([x \in Ids(table) |->
               IF table[x].ml = mainline_id /\ table[x].status \in Live
               THEN [table[x] EXCEPT !.status = "done"] ELSE table[x]],
           [ml |-> mainline_id, kind |-> kind, dur |-> obj.dur,
            instr |-> obj.instr, crit |-> obj.crit,
            status |-> "ready", ts |-> Stamp("steps")])

create_step(table, mainline_id, kind, obj) ==
    Append(table, [ml |-> mainline_id, kind |-> kind, dur |-> obj.dur,
                   instr |-> obj.instr, crit |-> obj.crit,
                   status |-> "ready", ts |-> Stamp("steps")])

update_step(sid, status) ==
    IF sid \in Ids(steps) THEN [steps EXCEPT ![sid].status = status] ELSE steps

\* An update that marks the task completed whatever status it is given
\* (C39 does not hold of it).
complete_task(tid, status) ==
    IF tid \in Ids(tasks) /\ tasks[tid].status # "deleted"
    THEN [tasks EXCEPT ![tid].status = "completed"] ELSE tasks

update_task(tid, status) ==
    IF tid \in Ids(tasks) /\ tasks[tid].status # "deleted"
    THEN [tasks EXCEPT ![tid].status = status] ELSE tasks

\* A delete that takes the mainlines of the task, and their steps, with it
\* (C23 does not hold of it).
delete_task_cascade(task_id) ==
    LET gone == {m \in Ids(mainlines) : mainlines[m].task = task_id}
    IN  [tasks |-> update_task(task_id, "deleted"),
         mainlines |-> SelectSeq(mainlines, LAMBDA m : m.task # task_id),
         steps |-> SelectSeq(steps, LAMBDA x : x.ml \notin gone)]

\* DELETE FROM task_items: the store after it.  Ids are never reused, so
\* the row stays as a tombstone no lookup returns; no table references
\* task_items by a foreign key, so no other row goes or changes.
delete_task(task_id) ==
    [tasks |-> update_task(task_id, "deleted"),
     mainlines |-> mainlines,
     steps |-> steps]

create_deferred(uid, step_id, mainline_id) ==
    Append(links, [uid |-> uid, step |-> step_id, ml |-> mainline_id,
                   ts |-> Stamp("links")])

\* A resume that leaves the links in the table (C5 does not hold of it).
keep_deferred(uid) == links

\* A resume that clears the links of every user (C24 does not hold of it).
clear_all_deferred(uid) == <<>>

clear_deferred(uid) == SelectSeq(links, LAMBDA l : l.uid # uid)

\* A finalization that leaves the streak alone (C15 does not hold of it).
keep_streak(uid) == users

\* A streak that grows at every finalization (C7 does not hold of it).
bump_streak(uid) ==
    [users EXCEPT ![uid].streak = @ + 1, ![uid].last = today]

update_streak(uid) ==
    IF users[uid].last # today
    THEN [users EXCEPT ![uid].streak = @ + 1, ![uid].last = today]
    ELSE users

create_stuck_event(step_id, stuck_type, emotion_label) ==
    Append(stuck, [step |-> step_id, type |-> stuck_type,
                   emo |-> emotion_label])

\* An evidence write that replaces the log (C17 does not hold of it).
overwrite_evidence(uid, text, tags) ==
    <<[uid |-> uid, text |-> text, tags |-> tags, day |-> today]>>

\* An evidence write that appends the row twice (C40 does not hold of it).
create_evidence_twice(uid, text, tags) ==
    evidence \o <<[uid |-> uid, text |-> text, tags |-> tags, day |-> today],
                  [uid |-> uid, text |-> text, tags |-> tags, day |-> today]>>

create_evidence(uid, text, tags) ==
    Append(evidence, [uid |-> uid, text |-> text, tags |-> tags,
                      day |-> today])

create_goal(uid) ==
    Append(goals, [uid |-> uid, active |-> TRUE, ts |-> MaxTs(goals) + 1])

\* The phases with those of the goal goal_id deactivated.
deactivate_phases(goal_id) ==
    [p \in Ids(phases) |->
        IF phases[p].goal = goal_id
        THEN [phases[p] EXCEPT !.active = FALSE] ELSE phases[p]]

\* create_phase with is_active = 1, as every caller has it.
create_phase(goal_id) ==
    Append(deactivate_phases(goal_id), [goal |-> goal_id, active |-> TRUE])

set_active_phase(goal_id, phase_id) ==
    LET off == deactivate_phases(goal_id)
    IN  [p \in Ids(phases) |->
            IF p = phase_id THEN [off[p] EXCEPT !.active = TRUE] ELSE off[p]]

----------------------------------------------------------------------------
(* Inline keyboards: the callback data of the buttons under a message *)

KbDeferred == {"timer_micro", "today_fresh"}
KbLive(kind) == IF kind = "micro" THEN {"timer_micro"} ELSE {"timer_upgrade"}
KbToday(low) ==
    {"timer_micro", "low_energy"} \cup (IF low THEN {} ELSE {"switch_B"})
KbStart == {"timer_micro"}
KbTimer(done) == {done, "stuck", "shrink", "exit"}
KbUpgrade == {"timer_upgrade", "review_start"}
KbEmotion == {"emo"}
KbStuckType == {"st"}
KbExit == {"cmd_start_fresh"}
KbReview == {"rtag", "rtag_skip"}
KbEvidence == {"cmd_today", "session_end"}
KbSessionEnd == {"cmd_today"}

----------------------------------------------------------------------------
(* /today *)

\* _gen_today, given the low-energy flag get_user returns.  The caller
\* states what happens to users and links.
\* _gen_today, the generator's answer being one of `outcomes`.
gen_today_on(outcomes, uid, op, low) ==
    \E pid \in resolve_phase(uid, None) :
    \E cands \in choose_candidates(uid, pid, low) :
    \E oc \in outcomes :
        LET chosen == IF low THEN cands.B ELSE cands.A
            ml_id == Len(mainlines) + 1
            ms == llm_micro_step(oc, chosen.title)
        IN  /\ Len(mainlines) < MaxMainlines
            /\ mainlines' = create_mainline(uid, chosen.title, chosen.task)
            /\ tasks' = IF chosen.task # None
                        THEN update_task(chosen.task, "in_progress") ELSE tasks
            /\ IF Complete(ms)
               THEN /\ Len(steps) < MaxSteps
                    /\ steps' = create_step(steps, ml_id, "micro", ms)
                    /\ ctx' = [ctx EXCEPT ![uid].cands = <<cands>>,
                                          ![uid].ml_id = ml_id,
                                          ![uid].step_id = Len(steps) + 1]
                    /\ plans' = plans \cup {<<uid, today>>}
                    /\ ev' = Turn(op, uid, "fresh", KbToday(low))
               ELSE /\ steps' = steps
                    /\ ctx' = [ctx EXCEPT ![uid].cands = <<cands>>,
                                          ![uid].ml_id = ml_id]
                    /\ plans' = plans
                    /\ ev' = Turn(op, uid, "aborted", ev.kb)
            /\ UNCHANGED <<today, goals, phases, stuck, evidence>>

gen_today(uid, op, low) == gen_today_on(TurnOutcomes, uid, op, low)

cmd_today_on(outcomes, uid) ==
    IF get_deferred(uid) # {}
    THEN \E l \in get_deferred(uid) :
            /\ ctx' = [ctx EXCEPT ![uid].step_id = links[l].step,
                                  ![uid].ml_id = links[l].ml]
            /\ steps' = update_step(links[l].step, "ready")
            /\ links' = clear_deferred(uid)
            /\ ev' = Turn("cmd_today", uid, "deferred", KbDeferred)
            /\ UNCHANGED <<today, users, goals, phases, tasks, mainlines,
                           stuck, evidence, plans>>
    ELSE \/ \E m \in get_today_mainline(uid) : \E s \in get_active_step(m) :
               /\ ctx' = [ctx EXCEPT ![uid].step_id = s, ![uid].ml_id = m]
               /\ ev' = Turn("cmd_today", uid, "live", KbLive(steps[s].kind))
               /\ UNCHANGED <<today, store>>
         \/ /\ \/ get_today_mainline(uid) = {}
               \/ \E m \in get_today_mainline(uid) : get_active_step(m) = {}
            /\ gen_today_on(outcomes, uid, "cmd_today", users[uid].low)
            /\ UNCHANGED <<users, links>>

cmd_today(uid) == cmd_today_on(TurnOutcomes, uid)

today_fresh(uid) ==
    /\ links' = clear_deferred(uid)
    /\ gen_today(uid, "today_fresh", users[uid].low)
    /\ UNCHANGED users

low_energy(uid) ==
    /\ users' = [users EXCEPT ![uid].low = TRUE]
    /\ gen_today(uid, "low_energy", TRUE)
    /\ UNCHANGED links

----------------------------------------------------------------------------
(* Callback router *)

switch_B(uid) ==
    IF ctx[uid].cands = <<>>
    THEN /\ ev' = Turn("switch_B", uid, "no_candidates", ev.kb)
         /\ UNCHANGED <<today, store, ctx>>
    ELSE \E oc \in TurnOutcomes :
         LET b == ctx[uid].cands[1].B
             ml_id == ctx[uid].ml_id
             ms == llm_micro_step(oc, b.title)
             aborted == ~Complete(ms) \/ ml_id = None
         IN  /\ mainlines' = IF ml_id \in Ids(mainlines)
                             THEN [mainlines EXCEPT ![ml_id].title = b.title]
                             ELSE mainlines
             /\ IF aborted
                THEN /\ UNCHANGED <<steps, ctx>>
                     /\ ev' = Turn("switch_B", uid, "aborted", ev.kb)
                ELSE /\ Len(steps) < MaxSteps
                     /\ steps' = create_step(steps, ml_id, "micro", ms)
                     /\ ctx' = [ctx EXCEPT ![uid].step_id = Len(steps) + 1]
                     /\ ev' = Turn("switch_B", uid, "switched", KbStart)
             /\ UNCHANGED <<today, users, goals, phases, tasks, links,
                            stuck, evidence, plans>>

\* timer_micro and timer_upgrade: the same write, different keyboards.
timer(uid, op, done) ==
    /\ steps' = update_step(ctx[uid].step_id, "executing")
    /\ ev' = Turn(op, uid, "", KbTimer(done))
    /\ UNCHANGED <<today, users, goals, phases, tasks, mainlines, links,
                   stuck, evidence, plans, ctx>>

timer_micro(uid) == timer(uid, "timer_micro", "done_micro")

timer_upgrade(uid) == timer(uid, "timer_upgrade", "done_upgrade")

done_micro_on(outcomes, uid) ==
    \E oc \in outcomes :
    LET sid == ctx[uid].step_id
        ml_id == ctx[uid].ml_id
        done == update_step(sid, "done")
        us == llm_upgrade_step(oc, mainline_title(ml_id))
        aborted == ~Complete(us) \/ ml_id = None
    IN  /\ IF aborted
           THEN /\ steps' = done
                /\ ctx' = ctx
                /\ ev' = Turn("done_micro", uid, "aborted", ev.kb)
           ELSE /\ Len(steps) < MaxSteps
                /\ steps' = create_step(done, ml_id, "upgrade", us)
                /\ ctx' = [ctx EXCEPT ![uid].step_id = Len(steps) + 1]
                /\ ev' = Turn("done_micro", uid, "", KbUpgrade)
        /\ UNCHANGED <<today, users, goals, phases, tasks, mainlines,
                       links, stuck, evidence, plans>>

done_micro(uid) == done_micro_on(TurnOutcomes, uid)

\* _review: the tag question.
review(uid, op) ==
    ev' = Turn(op, uid, "", KbReview)

done_upgrade(uid) ==
    /\ steps' = update_step(ctx[uid].step_id, "done")
    /\ review(uid, "done_upgrade")
    /\ UNCHANGED <<today, users, goals, phases, tasks, mainlines, links,
                   stuck, evidence, plans, ctx>>

review_start(uid) ==
    /\ review(uid, "review_start")
    /\ UNCHANGED <<today, store, ctx>>

stuck_cb(uid) ==
    /\ ev' = Turn("stuck", uid, "", KbEmotion)
    /\ UNCHANGED <<today, store, ctx>>

emo(uid, label) ==
    /\ ctx' = [ctx EXCEPT ![uid].emo = label]
    /\ ev' = Turn("emo", uid, "", KbStuckType)
    /\ UNCHANGED <<today, store>>

st(uid, stuck_type) ==
    \E oc \in TurnOutcomes :
    LET sid == ctx[uid].step_id
        ml_id == ctx[uid].ml_id
        rs == restart_step(oc, stuck_type)
    IN  /\ IF sid # None
           THEN /\ Len(stuck) < MaxStuck
                /\ stuck' = create_stuck_event(sid, stuck_type, ctx[uid].emo)
           ELSE stuck' = stuck
        /\ IF ~Complete(rs)
           THEN /\ UNCHANGED <<steps, ctx>>
                /\ ev' = Turn("st", uid, "aborted", ev.kb)
           ELSE IF ml_id # None
           THEN /\ Len(steps) < MaxSteps
                /\ steps' = create_step(steps, ml_id, "micro", rs)
                /\ ctx' = [ctx EXCEPT ![uid].step_id = Len(steps) + 1]
                /\ ev' = Turn("st", uid, "restart", KbStart)
           ELSE /\ UNCHANGED <<steps, ctx>>
                /\ ev' = Turn("st", uid, "no_mainline", KbStart)
        /\ UNCHANGED <<today, users, goals, phases, tasks, mainlines,
                       links, evidence, plans>>

shrink(uid) ==
    LET sid == ctx[uid].step_id
        ml_id == ctx[uid].ml_id
        instr == IF sid \in Ids(steps) THEN steps[sid].instr
                 ELSE <<"do_one_minimal_action">>
        obj == [dur |-> ShrinkMinutes, instr |-> shrink_instruction(instr),
                crit |-> "did_this_one"]
    IN  /\ IF ml_id # None
           THEN /\ Len(steps) < MaxSteps
                /\ steps' = create_step(steps, ml_id, "micro", obj)
                /\ ctx' = [ctx EXCEPT ![uid].step_id = Len(steps) + 1]
                /\ ev' = Turn("shrink", uid, "shrunk", KbStart)
           ELSE /\ UNCHANGED <<steps, ctx>>
                /\ ev' = Turn("shrink", uid, "no_mainline", KbStart)
        /\ UNCHANGED <<today, users, goals, phases, tasks, mainlines,
                       links, stuck, evidence, plans>>

exit(uid) ==
    LET sid == ctx[uid].step_id
        ml_id == ctx[uid].ml_id
    IN  /\ IF sid # None /\ ml_id # None
           THEN /\ Len(links) < MaxLinks
                /\ steps' = update_step(sid, "deferred")
                /\ links' = create_deferred(uid, sid, ml_id)
                /\ ev' = Turn("exit", uid, "deferred", KbExit)
           ELSE /\ UNCHANGED <<steps, links>>
                /\ ev' = Turn("exit", uid, "nothing", KbExit)
        /\ UNCHANGED <<today, users, goals, phases, tasks, mainlines,
                       stuck, evidence, plans, ctx>>

cmd_start_fresh(uid) ==
    /\ ev' = Turn("cmd_start_fresh", uid, "", {})
    /\ UNCHANGED <<today, store, ctx>>

session_end(uid) ==
    /\ ev' = Turn("session_end", uid, "", KbSessionEnd)
    /\ UNCHANGED <<today, store, ctx>>

\* _finish_review, with the scratch dict as the rtag_ branch left it.
finish_review(uid, op, scratch) ==
    LET sid == scratch.step_id
        ml_id == scratch.ml_id
        title == IF ml_id # None THEN mainline_title(ml_id) ELSE <<"task">>
        text == <<"done:">> \o title \o
                (IF sid \in Ids(steps)
                 THEN <<"->">> \o Cut(steps[sid].instr, ExcerptCut) ELSE <<>>)
        tags == {"small_win"} \cup
                (IF scratch.rtag # "" THEN {scratch.rtag} ELSE {})
    IN  /\ Len(evidence) < MaxEvidence
        /\ evidence' = create_evidence(uid, text, tags)
        /\ users' = update_streak(uid)
        /\ ev' = Turn(op, uid, "", KbEvidence)
        /\ UNCHANGED <<today, goals, phases, tasks, mainlines, steps,
                       links, stuck, plans>>

\* The router tests d.startswith("rtag_") first, so the data "rtag_skip"
\* is handled as the tag "skip".
rtag(uid, tag) ==
    /\ ctx' = [ctx EXCEPT ![uid].rtag = tag]
    /\ finish_review(uid, "rtag", [ctx[uid] EXCEPT !.rtag = tag])

rtag_skip(uid) == rtag(uid, "skip")

----------------------------------------------------------------------------
(* Text handler: the quick manual mainline (no input awaited) *)

handle_text(uid, text) ==
    \E oc \in TurnOutcomes :
    LET ml_id == Len(mainlines) + 1
        ms == llm_micro_step(oc, text)
    IN  /\ ctx[uid].awaiting = ""
        /\ Len(mainlines) < MaxMainlines
        /\ mainlines' = create_mainline(uid, text, None)
        /\ IF Complete(ms)
           THEN /\ Len(steps) < MaxSteps
                /\ steps' = create_step(steps, ml_id, "micro", ms)
                /\ ctx' = [ctx EXCEPT ![uid].ml_id = ml_id,
                                      ![uid].step_id = Len(steps) + 1]
                /\ ev' = Turn("handle_text", uid, "locked", KbStart)
           ELSE /\ UNCHANGED <<steps, ctx>>
                /\ ev' = Turn("handle_text", uid, "aborted", ev.kb)
        /\ UNCHANGED <<today, users, goals, phases, tasks, links, stuck,
                       evidence, plans>>

----------------------------------------------------------------------------
(* Manage: goals and phases *)

goal_create(uid) ==
    /\ ctx' = [ctx EXCEPT ![uid].awaiting = "goal_title"]
    /\ ev' = Turn("goal_create", uid, "", {})
    /\ UNCHANGED <<today, store>>

phase_create(uid) ==
    /\ ctx' = [ctx EXCEPT ![uid].awaiting = "phase_title"]
    /\ ev' = Turn("phase_create", uid, "", {})
    /\ UNCHANGED <<today, store>>

\* handle_text while a goal title is awaited: the goal and its default
\* phase.
text_goal_title(uid) ==
    /\ ctx[uid].awaiting = "goal_title"
    /\ Len(goals) < MaxGoals /\ Len(phases) < MaxPhases
    /\ ctx' = [ctx EXCEPT ![uid].awaiting = ""]
    /\ goals' = create_goal(uid)
    /\ phases' = create_phase(Len(goals) + 1)
    /\ ev' = Turn("handle_text", uid, "goal_title", {"m_tasks", "cmd_today"})
    /\ UNCHANGED <<today, users, tasks, mainlines, steps, links, stuck,
                   evidence, plans>>

\* handle_text while a phase title is awaited.
text_phase_title(uid) ==
    /\ ctx[uid].awaiting = "phase_title"
    /\ ctx' = [ctx EXCEPT ![uid].awaiting = ""]
    /\ IF get_active_goal(uid) = {}
       THEN /\ phases' = phases
            /\ ev' = Turn("handle_text", uid, "no_goal", ev.kb)
       ELSE \E g \in get_active_goal(uid) :
            /\ Len(phases) < MaxPhases
            /\ phases' = create_phase(g)
            /\ ev' = Turn("handle_text", uid, "phase_title",
                          {"m_tasks", "cmd_manage"})
    /\ UNCHANGED <<today, users, goals, tasks, mainlines, steps, links,
                   stuck, evidence, plans>>

\* The pa_ branch, for the phase id the callback data carries.
pa(uid, pid) ==
    /\ IF get_active_goal(uid) = {}
       THEN phases' = phases
       ELSE \E g \in get_active_goal(uid) : phases' = set_active_phase(g, pid)
    /\ ev' = Turn("pa", uid, "", {"cmd_manage"})
    /\ UNCHANGED <<today, users, goals, tasks, mainlines, steps, links,
                   stuck, evidence, plans, ctx>>

\* The td_ branch: the delete, then the tasks menu.
KbTasks == {"tt", "t_add", "t_import", "t_back"}

td(uid, task_id) ==
    LET after == delete_task(task_id)
    IN  /\ tasks' = after.tasks
        /\ mainlines' = after.mainlines
        /\ steps' = after.steps
        /\ ev' = Turn("td", uid, "",
                      IF \E g \in get_active_goal(uid) :
                            get_active_phase(g) # {}
                      THEN KbTasks ELSE {"goal_create"})
        /\ UNCHANGED <<today, users, goals, phases, links, stuck, evidence,
                       plans, ctx>>

\* The tt_ branch: the task's status moves one place round the cycle.
cycle(status) ==
    CASE status = "not_started" -> "in_progress"
      [] status = "in_progress" -> "completed"
      [] OTHER -> "not_started"

tt(uid, tid) ==
    /\ tasks' = IF tid \in Ids(tasks) /\ tasks[tid].status # "deleted"
                THEN update_task(tid, cycle(tasks[tid].status)) ELSE tasks
    /\ ev' = Turn("tt", uid, "",
                  IF \E g \in get_active_goal(uid) :
                        get_active_phase(g) # {}
                  THEN KbTasks ELSE {"goal_create"})
    /\ UNCHANGED <<today, users, goals, phases, mainlines, steps, links,
                   stuck, evidence, plans, ctx>>

----------------------------------------------------------------------------
(* Turns in which a statement raises: the statements before it have run
   (every store function commits on its own), the rest have not *)

\* The statements of a turn, in source order.
gen_today_body ==
    <<"create_mainline", "update_task", "create_step", "save_if_then",
      "_send">>

low_energy_body == <<"update_user">> \o gen_today_body

exit_body == <<"update_step", "create_deferred", "edit_message_text">>

\* A finalization that answers before it writes the streak (C21 does not
\* hold of it).
answer_before_streak ==
    <<"create_evidence", "edit_message_text", "update_streak">>

\* A finalization that writes the streak before the evidence (C22 does not
\* hold of it).
streak_before_evidence ==
    <<"update_streak", "create_evidence", "edit_message_text">>

finish_review_body ==
    <<"create_evidence", "update_streak", "edit_message_text">>

\* The statements of body that ran when its statement number fail raised
\* (fail = 0: none raised).
Ran(body, fail) ==
    {body[i] : i \in 1..(IF fail = 0 THEN Len(body) ELSE fail - 1)}

\* _gen_today when only the statements `ran` could run; create_step raises
\* on its own when the micro step lacks a field.
gen_today_turn(uid, op, low, ran) ==
    \E pid \in resolve_phase(uid, None) :
    \E cands \in choose_candidates(uid, pid, low) :
    \E oc \in TurnOutcomes :
        LET chosen == IF low THEN cands.B ELSE cands.A
            ml_id == Len(mainlines) + 1
            ms == llm_micro_step(oc, chosen.title)
            did == IF Complete(ms) THEN ran
                   ELSE ran \ {"create_step", "save_if_then", "_send"}
        IN  /\ Len(mainlines) < MaxMainlines
            /\ Len(steps) < MaxSteps
            /\ mainlines' = IF "create_mainline" \in did
                            THEN create_mainline(uid, chosen.title,
                                                 chosen.task)
                            ELSE mainlines
            /\ tasks' = IF "update_task" \in did /\ chosen.task # None
                        THEN update_task(chosen.task, "in_progress")
                        ELSE tasks
            /\ steps' = IF "create_step" \in did
                        THEN create_step(steps, ml_id, "micro", ms)
                        ELSE steps
            /\ plans' = IF "save_if_then" \in did
                        THEN plans \cup {<<uid, today>>} ELSE plans
            /\ ctx' = [ctx EXCEPT
                         ![uid].cands = <<cands>>,
                         ![uid].ml_id =
                             IF "create_mainline" \in did THEN ml_id ELSE @,
                         ![uid].step_id =
                             IF "create_step" \in did
                             THEN Len(steps) + 1 ELSE @]
            /\ ev' = IF "_send" \in did
                     THEN Turn(op, uid, "fresh", KbToday(low))
                     ELSE Turn(op, uid, "aborted", ev.kb)
            /\ UNCHANGED <<today, goals, phases, stuck, evidence>>

low_energy_turn(uid, fail) ==
    LET ran == Ran(low_energy_body, fail)
    IN  IF "update_user" \in ran
        THEN /\ users' = [users EXCEPT ![uid].low = TRUE]
             /\ gen_today_turn(uid, "low_energy", TRUE, ran)
             /\ UNCHANGED links
        ELSE /\ ev' = Turn("low_energy", uid, "aborted", ev.kb)
             /\ UNCHANGED <<today, store, ctx>>

exit_turn(uid, fail) ==
    LET sid == ctx[uid].step_id
        ml_id == ctx[uid].ml_id
        ran == Ran(exit_body, fail)
        writes == sid # None /\ ml_id # None
    IN  /\ Len(links) < MaxLinks
        /\ steps' = IF writes /\ "update_step" \in ran
                    THEN update_step(sid, "deferred") ELSE steps
        /\ links' = IF writes /\ "create_deferred" \in ran
                    THEN create_deferred(uid, sid, ml_id) ELSE links
        /\ ev' = IF "edit_message_text" \in ran
                 THEN Turn("exit", uid,
                           IF writes THEN "deferred" ELSE "nothing", KbExit)
                 ELSE Turn("exit", uid, "aborted", ev.kb)
        /\ UNCHANGED <<today, users, goals, phases, tasks, mainlines,
                       stuck, evidence, plans, ctx>>

finish_review_turn(uid, op, scratch, fail) ==
    LET sid == scratch.step_id
        ml_id == scratch.ml_id
        ran == Ran(finish_review_body, fail)
        title == IF ml_id # None THEN mainline_title(ml_id) ELSE <<"task">>
        text == <<"done:">> \o title \o
                (IF sid \in Ids(steps)
                 THEN <<"->">> \o Cut(steps[sid].instr, ExcerptCut) ELSE <<>>)
        tags == {"small_win"} \cup
                (IF scratch.rtag # "" THEN {scratch.rtag} ELSE {})
    IN  /\ Len(evidence) < MaxEvidence
        /\ evidence' = IF "create_evidence" \in ran
                       THEN create_evidence(uid, text, tags) ELSE evidence
        /\ users' = IF "update_streak" \in ran
                    THEN update_streak(uid) ELSE users
        /\ ev' = IF "edit_message_text" \in ran
                 THEN Turn(op, uid, "", KbEvidence)
                 ELSE Turn(op, uid, "aborted", ev.kb)
        /\ UNCHANGED <<today, goals, phases, tasks, mainlines, steps,
                       links, stuck, plans>>

rtag_turn(uid, tag, fail) ==
    /\ ctx' = [ctx EXCEPT ![uid].rtag = tag]
    /\ finish_review_turn(uid, "rtag", [ctx[uid] EXCEPT !.rtag = tag], fail)

----------------------------------------------------------------------------
(* Environment: the clock, the calendar, the process *)

NoSecond == [t \in {"mainlines", "steps", "links"} |-> 0]

\* The turn A runs within the current second: the tables it inserted into
\* now hold a row of this second.
\* The bookkeeping of a turn: an aborted turn is counted (and is left out
\* once MaxAborted turns were aborted).
Counted ==
    /\ ev'.branch = "aborted" => faults.aborted < MaxAborted
    /\ faults' = IF ev'.branch = "aborted"
                 THEN [faults EXCEPT !.aborted = @ + 1] ELSE faults
    /\ dawn' = dawn
    /\ reply' = reply
    /\ running' = running

InSecond(A) ==
    /\ A
    /\ second' = Clock({t \in DOMAIN second : Len(Table(t)') > Len(Table(t))},
                       links')
    /\ Counted

\* The turn A, where a turn that inserts a mainline or a step runs in a
\* later second than the previous such row (exits may share a second).
Spaced(A) ==
    /\ InSecond(A)
    /\ \A t \in {"mainlines", "steps"} :
          Len(Table(t)') > Len(Table(t)) => second[t] = 0

\* The turn A with a second of its own.
Alone(A) ==
    /\ second = NoSecond
    /\ A
    /\ second' = NoSecond
    /\ Counted

\* The button with callback data b is under the latest message.
Offered(b) == b \in ev.kb

\* A second passes.  (Unobservable, and so left out, while no table holds
\* a row of the current second.)
Tick ==
    /\ second # NoSecond
    /\ second' = NoSecond
    /\ UNCHANGED <<today, store, ctx, ev, faults, dawn, reply, running>>

\* Midnight passes.
NextDay ==
    /\ today < MaxDay
    /\ today' = today + 1
    /\ second' = NoSecond
    /\ dawn' = [u \in UserIds |-> users[u].streak]
    /\ UNCHANGED <<store, ctx, ev, faults, reply, running>>

\* The process restarts: ctx.user_data lives in memory only, the messages
\* in the chat keep their keyboards.
Restart ==
    /\ faults.restarts < MaxRestarts
    /\ \E u \in UserIds : ctx[u] # NoCtx
    /\ ctx' = [u \in UserIds |-> NoCtx]
    /\ faults' = [faults EXCEPT !.restarts = @ + 1]
    /\ UNCHANGED <<today, second, store, ev, dawn, reply, running>>

----------------------------------------------------------------------------
(* The progression state machine of one user over a fixed task pool *)

U1 == 1

Titles == <<"T1", "T2", "T3", "T4">>

NoPool == [goals |-> <<>>, phases |-> <<>>, tasks |-> <<>>]
TwoTasks ==
    [goals |-> <<[uid |-> U1, active |-> TRUE, ts |-> 1]>>,
     phases |-> <<[goal |-> 1, active |-> TRUE]>>,
     tasks |-> <<[phase |-> 1, title |-> <<"T1">>, status |-> "not_started"],
                 [phase |-> 1, title |-> <<"T2">>, status |-> "not_started"]>>]

\* The state after init_db and ensure_user, over the pool `pool`.
Fresh(pool) ==
    /\ today = 1
    /\ second = NoSecond
    /\ users = [u \in UserIds |-> [low |-> FALSE, streak |-> 0, last |-> None]]
    /\ goals = pool.goals
    /\ phases = pool.phases
    /\ tasks = pool.tasks
    /\ mainlines = <<>>
    /\ steps = <<>>
    /\ links = <<>>
    /\ stuck = <<>>
    /\ evidence = <<>>
    /\ plans = {}
    /\ ctx = [u \in UserIds |-> NoCtx]
    /\ ev = Turn("init", None, "", {})
    /\ faults = [aborted |-> 0, restarts |-> 0]
    /\ dawn = [u \in UserIds |-> 0]
    /\ reply = NoReply
    /\ running = [w \in Workers |-> Idle]

Init == Fresh(TwoTasks)

\* The user sends /today or a text at any time, and otherwise presses a
\* button of the latest message; one turn a second.
Next ==
    \/ Alone(cmd_today(U1))
    \/ Alone(\E text \in Texts : handle_text(U1, text))
    \/ Offered("today_fresh") /\ Alone(today_fresh(U1))
    \/ Offered("low_energy") /\ Alone(low_energy(U1))
    \/ Offered("switch_B") /\ Alone(switch_B(U1))
    \/ Offered("timer_micro") /\ Alone(timer_micro(U1))
    \/ Offered("timer_upgrade") /\ Alone(timer_upgrade(U1))
    \/ Offered("done_micro") /\ Alone(done_micro(U1))
    \/ Offered("done_upgrade") /\ Alone(done_upgrade(U1))
    \/ Offered("review_start") /\ Alone(review_start(U1))
    \/ Offered("stuck") /\ Alone(stuck_cb(U1))
    \/ Offered("emo") /\ Alone(\E label \in Emotions : emo(U1, label))
    \/ Offered("st") /\ Alone(\E t \in StuckTypes : st(U1, t))
    \/ Offered("shrink") /\ Alone(shrink(U1))
    \/ Offered("exit") /\ Alone(exit(U1))
    \/ Offered("cmd_start_fresh") /\ Alone(cmd_start_fresh(U1))
    \/ Offered("rtag") /\ Alone(\E tag \in ReviewTags : rtag(U1, tag))
    \/ Offered("rtag_skip") /\ Alone(rtag_skip(U1))
    \/ Offered("session_end") /\ Alone(session_end(U1))
    \/ NextDay

Spec == Init /\ [][Next]_vars

----------------------------------------------------------------------------
(* The same machine when the process may restart between two turns *)

NextRestart ==
    \/ Next
    \/ Restart

SpecRestart == Init /\ [][NextRestart]_vars

----------------------------------------------------------------------------
(* Callbacks of older messages: any button, in any state *)

NextStale ==
    \/ Spaced(cmd_today(U1))
    \/ Spaced(timer_micro(U1))
    \/ Spaced(done_micro(U1))
    \/ Spaced(done_upgrade(U1))
    \/ Spaced(exit(U1))
    \/ Restart
    \/ Tick
    \/ NextDay

SpecStale == Fresh(TwoTasks) /\ [][NextStale]_vars

----------------------------------------------------------------------------
(* The review flow with repeated presses, across days *)

NextReview ==
    \/ Alone(cmd_today(U1))
    \/ Alone(timer_micro(U1))
    \/ Alone(done_micro(U1))
    \/ Alone(timer_upgrade(U1))
    \/ Alone(done_upgrade(U1))
    \/ Alone(review_start(U1))
    \/ Alone(\E tag \in ReviewTags : rtag(U1, tag))
    \/ Alone(rtag_skip(U1))
    \/ NextDay

SpecReview == Fresh(TwoTasks) /\ [][NextReview]_vars

----------------------------------------------------------------------------
(* Candidate selection over every small task pool *)

\* A goal with an active and an inactive phase, and up to MaxTasks tasks in
\* insertion order, each in either phase and in any status; or no goal.
InitCand ==
    \/ Fresh(NoPool)
    \/ \E n \in 0..MaxTasks :
       \E f \in [1..n -> [phase : {1, 2}, status : TaskStatuses]] :
          Fresh([goals |-> TwoTasks.goals,
                 phases |-> <<[goal |-> 1, active |-> TRUE],
                              [goal |-> 1, active |-> FALSE]>>,
                 tasks |-> [i \in 1..n |->
                              [phase |-> f[i].phase, title |-> <<Titles[i]>>,
                               status |-> f[i].status]]])

\* The first lines of _gen_today: the pair is computed and kept.
select(uid) ==
    \E low \in BOOLEAN : \E cands \in choose_candidates(uid, None, low) :
        /\ ctx' = [ctx EXCEPT ![uid].cands = <<cands>>]
        /\ ev' = Turn("choose_candidates", uid, "", ev.kb)
        /\ UNCHANGED <<today, store>>

NextCand == Alone(select(U1))

SpecCand == InitCand /\ [][NextCand]_vars

----------------------------------------------------------------------------
(* The content broker over every request kind and generator outcome *)

\* The titles and stuck types a request carries.
BrokerArgs(kind) ==
    IF kind = "intervention"
    THEN {"PERFECTIONISM", "GOAL_TOO_BIG", "OVERTHINKING",
          "EMOTIONAL_FRICTION", "REWARD_MISMATCH", "SELF_LIMITING"}
    ELSE {<<>>} \cup {<<Titles[i]>> : i \in 1..MaxTasks}
                \cup {<<"advance", Titles[i]>> : i \in 1..MaxTasks}

ask ==
    \E kind \in Kinds : \E oc \in GenOutcomes : \E arg \in BrokerArgs(kind) :
        /\ reply' = [kind |-> kind, outcome |-> oc, arg |-> arg,
                     content |-> request(kind, oc, arg)]
        /\ UNCHANGED <<today, second, store, ctx, ev, faults, dawn, running>>

NextBroker == ask

SpecBroker == Fresh(NoPool) /\ [][NextBroker]_vars

\* A request with the generator's answers to the attempts spelled out.
attempt ==
    \E kind \in Kinds : \E arg \in BrokerArgs(kind) :
    \E client \in BOOLEAN : \E answers \in [1..2 -> Responses] :
        LET got == call_llm(client, answers)
        IN  /\ reply' = [kind |-> kind, outcome |-> Outcome(got.r),
                         arg |-> arg,
                         content |-> request(kind, Outcome(got.r), arg),
                         client |-> client, answers |-> answers,
                         calls |-> got.calls]
            /\ UNCHANGED <<today, second, store, ctx, ev, faults, dawn, running>>

NextRetry == attempt

SpecRetry == Fresh(NoPool) /\ [][NextRetry]_vars

----------------------------------------------------------------------------
(* Goals and phases: creation and activation, from any menu still in the
   chat *)

NextManage ==
    \/ Alone(goal_create(U1))
    \/ Alone(phase_create(U1))
    \/ Alone(text_goal_title(U1))
    \/ Alone(text_phase_title(U1))
    \/ Alone(\E pid \in Ids(phases) : pa(U1, pid))

SpecManage == Fresh(NoPool) /\ [][NextManage]_vars

----------------------------------------------------------------------------
(* The machine when a statement of a turn may raise *)

NextFaulty ==
    \/ Alone(cmd_today(U1))
    \/ Alone(\E fail \in 0..Len(low_energy_body) : low_energy_turn(U1, fail))
    \/ Alone(\E fail \in 0..Len(exit_body) : exit_turn(U1, fail))
    \/ Alone(\E tag \in ReviewTags :
             \E fail \in 0..Len(finish_review_body) :
                rtag_turn(U1, tag, fail))

SpecFaulty == Init /\ [][NextFaulty]_vars

\* Every turn of the progression machine, and finalizations in which a
\* statement raises.
NextOrder ==
    \/ Next
    \/ /\ Offered("rtag")
       /\ Alone(\E tag \in ReviewTags :
                \E fail \in 1..Len(finish_review_body) :
                   rtag_turn(U1, tag, fail))

SpecOrder == Init /\ [][NextOrder]_vars

----------------------------------------------------------------------------
(* The machine while tasks are deleted *)

NextTasks ==
    \/ Alone(cmd_today(U1))
    \/ Alone(timer_micro(U1))
    \/ Alone(done_micro(U1))
    \/ Alone(low_energy(U1))
    \/ Alone(\E task_id \in 1..MaxTasks : td(U1, task_id))
    \/ NextDay

SpecTasks == Init /\ [][NextTasks]_vars

\* The progression flow while the tasks are managed: the buttons of the
\* task menu stay pressable under its message.
NextProgress ==
    \/ Alone(cmd_today(U1))
    \/ Offered("low_energy") /\ Alone(low_energy(U1))
    \/ Offered("timer_micro") /\ Alone(timer_micro(U1))
    \/ Offered("timer_upgrade") /\ Alone(timer_upgrade(U1))
    \/ Offered("done_micro") /\ Alone(done_micro(U1))
    \/ Offered("done_upgrade") /\ Alone(done_upgrade(U1))
    \/ Offered("review_start") /\ Alone(review_start(U1))
    \/ Offered("rtag") /\ Alone(\E tag \in ReviewTags : rtag(U1, tag))
    \/ Offered("rtag_skip") /\ Alone(rtag_skip(U1))
    \/ Alone(\E tid \in 1..MaxTasks : tt(U1, tid))
    \/ Alone(\E tid \in 1..MaxTasks : td(U1, tid))
    \/ NextDay

SpecProgress == Init /\ [][NextProgress]_vars

----------------------------------------------------------------------------
(* The happy path: every turn runs to its end *)

\* The generator succeeds or falls back.
HappyOutcomes == {"valid", "fallback"}

\* What the user sends: /today to open a session (at first, or from the
\* button under the evidence message), and then only start, complete and
\* the review choice, from the latest message.
press ==
    \/ (ev.op = "init" \/ Offered("cmd_today"))
          /\ Alone(cmd_today_on(HappyOutcomes, U1))
    \/ Offered("timer_micro") /\ Alone(timer_micro(U1))
    \/ Offered("done_micro") /\ Alone(done_micro_on(HappyOutcomes, U1))
    \/ Offered("timer_upgrade") /\ Alone(timer_upgrade(U1))
    \/ Offered("done_upgrade") /\ Alone(done_upgrade(U1))
    \/ Offered("review_start") /\ Alone(review_start(U1))
    \/ Offered("rtag") /\ Alone(\E tag \in ReviewTags : rtag(U1, tag))
    \/ Offered("rtag_skip") /\ Alone(rtag_skip(U1))

NextHappy == press \/ NextDay

\* The user goes on pressing while a button is there to press.
SpecHappy == Init /\ [][NextHappy]_vars /\ WF_vars(press)

----------------------------------------------------------------------------
(* Two users, their turns interleaved *)

\* The turns of the user uid.
turn(uid) ==
    \/ cmd_today(uid)
    \/ timer_micro(uid)
    \/ exit(uid)
    \/ \E tag \in ReviewTags : rtag(uid, tag)

\* The interleavings, while the deferred links carry at most MaxStamp
\* different creation times.
NextUsers ==
    \E uid \in UserIds : Alone(turn(uid)) /\ MaxTs(links') <= MaxStamp

SpecUsers == Init /\ [][NextUsers]_vars

----------------------------------------------------------------------------
(* Mainlines created at any pace: several turns may fall in one second *)

NextSecond ==
    \/ InSecond(cmd_today(U1))
    \/ InSecond(low_energy(U1))
    \/ InSecond(\E text \in Texts : handle_text(U1, text))
    \/ InSecond(timer_micro(U1))
    \/ InSecond(done_micro(U1))
    \/ Tick
    \/ NextDay

SpecSecond == Init /\ [][NextSecond]_vars

----------------------------------------------------------------------------
(* Fresh generation, with and without low-energy mode, over every small
   task pool *)

NextEnergy ==
    \/ Alone(cmd_today(U1))
    \/ Alone(low_energy(U1))

SpecEnergy == InitCand /\ [][NextEnergy]_vars

\* update_streak statement by statement, for calls that overlap: the row is
\* read, the date is read, and the row is written if it was not of today.
streak_get_user(w, uid) ==
    /\ running[w].pc = "idle"
    /\ running' = [running EXCEPT ![w] = [pc |-> "read", uid |-> uid,
                                          u |-> get_user(uid),
                                          today |-> None]]
    /\ UNCHANGED <<today, second, store, ctx, ev, faults, dawn, reply>>

streak_date_today(w) ==
    /\ running[w].pc = "read"
    /\ running' = [running EXCEPT ![w].pc = "dated", ![w].today = today]
    /\ UNCHANGED <<today, second, store, ctx, ev, faults, dawn, reply>>

streak_update_user(w) ==
    LET r == running[w]
    IN  /\ r.pc = "dated"
        /\ users' = IF r.u.last # r.today
                    THEN update_user(r.uid, r.u.streak + 1, r.today)
                    ELSE users
        /\ running' = [running EXCEPT ![w].pc = "done"]
        /\ UNCHANGED <<today, second, goals, phases, tasks, mainlines, steps,
                       links, stuck, evidence, plans, ctx, ev, faults, dawn,
                       reply>>

\* Midnight passes while no call is in progress; the calls of the day have
\* returned.
streak_midnight ==
    /\ \A w \in Workers : running[w].pc \in {"idle", "done"}
    /\ today < MaxDay
    /\ today' = today + 1
    /\ dawn' = [u \in UserIds |-> users[u].streak]
    /\ running' = [w \in Workers |-> Idle]
    /\ UNCHANGED <<second, store, ctx, ev, faults, reply>>

NextStreak ==
    \/ \E w \in Workers, uid \in UserIds : streak_get_user(w, uid)
    \/ \E w \in Workers : streak_date_today(w)
    \/ \E w \in Workers : streak_update_user(w)
    \/ streak_midnight

SpecStreak == Fresh(NoPool) /\ [][NextStreak]_vars

----------------------------------------------------------------------------
(* Entry resolution: what a /today turn did, read off the step it took *)

ExactlyOne(a, b, c) ==
    \/ a /\ ~b /\ ~c
    \/ ~a /\ b /\ ~c
    \/ ~a /\ ~b /\ c

\* The turn resumed a deferred step: the user's links are gone, nothing was
\* created, and the step and mainline of one of the links are current.
Resumed(uid) ==
    /\ UserLinks(uid) # {}
    /\ UserLinks(uid)' = {}
    /\ Len(mainlines') = Len(mainlines)
    /\ Len(steps') = Len(steps)
    /\ \E l \in UserLinks(uid) : /\ ctx'[uid].step_id = links[l].step
                                /\ ctx'[uid].ml_id = links[l].ml

\* The turn adopted a live step of a mainline of today and wrote nothing.
Adopted(uid) ==
    /\ UserLinks(uid) = {}
    /\ UNCHANGED store
    /\ \E m \in Ids(mainlines) : \E s \in Ids(steps) :
          /\ mainlines[m].uid = uid /\ mainlines[m].date = today
          /\ steps[s].ml = m /\ steps[s].status \in Live
          /\ ctx'[uid].ml_id = m /\ ctx'[uid].step_id = s

\* The turn created one mainline of today and one step on it, now current.
Created(uid) ==
    /\ Len(mainlines') = Len(mainlines) + 1
    /\ Len(steps') = Len(steps) + 1
    /\ mainlines'[Len(mainlines')].uid = uid
    /\ mainlines'[Len(mainlines')].date = today
    /\ steps'[Len(steps')].ml = Len(mainlines')
    /\ ctx'[uid].ml_id = Len(mainlines')
    /\ ctx'[uid].step_id = Len(steps')

\* The scratch dict names a step and a mainline, and the step is live.
CurrentIsLive(uid) ==
    /\ ctx[uid].step_id \in Ids(steps)
    /\ ctx[uid].ml_id \in Ids(mainlines)
    /\ steps[ctx[uid].step_id].status \in Live

\* C1: when a /today turn ends, exactly one of the three branches was taken
\* (a deferred step resumed, a live step of today's mainline adopted, a
\* fresh mainline and step created), and the current step id and mainline
\* id refer to a step whose status is ready or executing.
C1_EntryResolves ==
    [][cmd_today(U1) =>
          /\ ExactlyOne(Resumed(U1), Adopted(U1), Created(U1))
          /\ CurrentIsLive(U1)']_vars

\* C2: every mainline has at most one step whose status is ready or
\* executing.
C2_OneLiveStep ==
    \A m \in Ids(mainlines) :
        Cardinality({s \in Ids(steps) :
                        steps[s].ml = m /\ steps[s].status \in Live}) <= 1

\* C3: done_micro on a current micro step sets it to done and creates
\* exactly one step, of kind upgrade and status ready, on the mainline of
\* the completed step; that new step becomes current.
C3_MicroYieldsUpgrade ==
    [][LET sid == ctx[U1].step_id
           new == Len(steps) + 1
       IN  (done_micro(U1) /\ sid \in Ids(steps) /\ steps[sid].kind = "micro")
           => /\ steps'[sid].status = "done"
              /\ Len(steps') = new
              /\ steps'[new].kind = "upgrade"
              /\ steps'[new].status = "ready"
              /\ steps'[new].ml = steps[sid].ml
              /\ ctx'[U1].step_id = new]_vars

\* C4: completing a current step of kind upgrade creates no step and asks
\* the review question, whichever completion button the flow put under the
\* running timer.
C4_UpgradeEndsInReview ==
    [][LET sid == ctx[U1].step_id
       IN  ((done_micro(U1) \/ done_upgrade(U1))
               /\ sid \in Ids(steps) /\ steps[sid].kind = "upgrade")
           => /\ Len(steps') = Len(steps)
              /\ ev'.kb = KbReview]_vars

\* C5: a /today turn that finds a deferred link sets the linked step to
\* ready and leaves the user with no link; no link appears without an exit,
\* so a second /today turn finds none, writes no link and goes on to the
\* live-step check (adopting a live step of today's mainline when every
\* lookup finds one, generating otherwise).
C5_ResumeClearsDeferral ==
    [][/\ (cmd_today(U1) /\ get_deferred(U1) # {})
             => /\ \E l \in get_deferred(U1) :
                       steps'[links[l].step].status = "ready"
                /\ UserLinks(U1)' = {}
       /\ (UserLinks(U1) = {} /\ ~exit(U1)) => UserLinks(U1)' = {}
       /\ (cmd_today(U1) /\ UserLinks(U1) = {})
             => /\ links' = links
                /\ Adopted(U1) \/ Len(mainlines') = Len(mainlines) + 1
                /\ (/\ get_today_mainline(U1) # {}
                    /\ \A m \in get_today_mainline(U1) :
                          get_active_step(m) # {}) => Adopted(U1)]_vars

C5_Witness ==
    /\ ev.op = "cmd_today" /\ ev.branch = "deferred"
    /\ UserLinks(U1) = {}
    /\ ctx[U1].step_id \in Ids(steps)
    /\ steps[ctx[U1].step_id].status = "ready"
    /\ \E m \in get_today_mainline(U1) : get_active_step(m) # {}

\* C6: round trip of exit and /today.  Exit on an executing current step S
\* sets S to deferred and makes every deferred-link lookup return S; the
\* /today turn that follows makes S current with status ready and the
\* same instruction, and leaves the user no link.
C6_ExitEntryRoundTrip ==
    [][LET sid == ctx[U1].step_id
       IN  /\ (/\ exit(U1)
               /\ sid \in Ids(steps) /\ steps[sid].status = "executing"
               /\ ctx[U1].ml_id # None)
                 => /\ steps'[sid].status = "deferred"
                    /\ get_deferred(U1)' # {}
                    /\ \A l \in get_deferred(U1)' : links'[l].step = sid
           /\ (/\ cmd_today(U1)
               /\ ev.op = "exit" /\ ev.branch = "deferred")
                 => LET S == links[Len(links)].step
                    IN  /\ ctx'[U1].step_id = S
                        /\ steps'[S].status = "ready"
                        /\ steps'[S].instr = steps[S].instr
                        /\ UserLinks(U1)' = {}]_vars

\* C7: during a day a user's streak grows by at most 1, however many
\* evidence rows the day's review finalizations append.
C7_StreakOncePerDay ==
    \A u \in UserIds :
        /\ dawn[u] <= users[u].streak
        /\ users[u].streak <= dawn[u] + 1

C7_Witness ==
    /\ Cardinality({e \in Ids(evidence) :
                       evidence[e].uid = U1 /\ evidence[e].day = today}) >= 2
    /\ today > 1
    /\ users[U1].streak = dawn[U1] + 1

\* The pool of a user: the in_progress and not_started tasks of the active
\* phase of the current goal.
Pool(uid) ==
    {t \in Ids(tasks) :
        /\ \E g \in get_active_goal(uid) : tasks[t].phase \in get_active_phase(g)
        /\ tasks[t].status \in {"in_progress", "not_started"}}

\* t1 comes before t2 in the pool: in_progress tasks in insertion order,
\* then not_started tasks in insertion order.
Before(t1, t2) ==
    \/ tasks[t1].status = "in_progress" /\ tasks[t2].status = "not_started"
    \/ tasks[t1].status = tasks[t2].status /\ t1 < t2

First(S) == CHOOSE t \in S : \A o \in S \ {t} : Before(t, o)

\* C8: for an empty pool A and B have different titles and no task; for a
\* pool of one task both reference it; for a pool of two or more tasks they
\* reference different tasks.
C8_CandidatesByPoolSize ==
    ctx[U1].cands # <<>> =>
        LET c == ctx[U1].cands[1]
            n == Cardinality(Pool(U1))
        IN  /\ n = 0 => /\ c.A.title # c.B.title
                        /\ c.A.task = None /\ c.B.task = None
            /\ n = 1 => /\ c.A.task \in Pool(U1)
                        /\ c.B.task = c.A.task
            /\ n >= 2 => c.A.task # c.B.task

C8_Witness ==
    /\ ctx[U1].cands # <<>>
    /\ Cardinality(Pool(U1)) = 1
    /\ Len(tasks) = MaxTasks
    /\ ctx[U1].cands[1].B.task \in Pool(U1)

C10_DeferredFirst ==
    [][(cmd_today(U1) /\ UserLinks(U1) # {})
          => /\ Len(mainlines') = Len(mainlines)
             /\ Len(steps') = Len(steps)
             /\ \E l \in UserLinks(U1) : ctx'[U1].step_id = links[l].step
             /\ ev'.branch = "deferred"]_vars

C10_Witness ==
    /\ ev.op = "cmd_today" /\ ev.branch = "deferred"
    /\ ctx[U1].step_id # None
    /\ \E m \in get_today_mainline(U1) : \E s \in get_active_step(m) :
          s # ctx[U1].step_id

\* C11: every user has at most one deferred-link row.
C11_OneLinkPerUser ==
    \A u \in UserIds : Cardinality(UserLinks(u)) <= 1

\* C12: after an exit turn on a current step the step has status deferred,
\* the user's deferred-link lookup returns it, and the scratch dict names
\* no current step.
C12_ExitLeavesNoCurrent ==
    [][LET sid == ctx[U1].step_id
       IN  (exit(U1) /\ sid \in Ids(steps) /\ ctx[U1].ml_id # None)
           => /\ steps'[sid].status = "deferred"
              /\ get_deferred(U1)' # {}
              /\ \A l \in get_deferred(U1)' : links'[l].step = sid
              /\ ctx'[U1].step_id = None]_vars

\* The fields the response schema of a request kind requires.
Required(kind) ==
    CASE kind \in {"micro_step", "upgrade_step"} -> StepFields
      [] kind = "if_then_plan" -> {"if_trigger", "then_action", "reward"}
      [] OTHER -> {"body_reset", "intervention_text", "restart_step",
                   "push_line"}

\* C13: for every request kind and generator outcome the content the
\* broker returns has every required field of the kind (and the restart
\* step of an intervention every field of a step).
C13_BrokerContentValid ==
    reply # NoReply =>
        /\ Required(reply.kind) \subseteq DOMAIN reply.content
        /\ reply.kind = "intervention" =>
              StepFields \subseteq DOMAIN reply.content.restart_step

\* C14: the evidence row a review finalization appends has the tag set
\* {small_win} when the user pressed skip in this review and the tag set
\* {small_win, t} when the user pressed the stuck tag t in this review.
C14_EvidenceTags ==
    [][LET new == evidence'[Len(evidence')]
       IN  /\ rtag_skip(U1) => new.tags = {"small_win"}
           /\ \A t \in ReviewTags :
                 rtag(U1, t) => new.tags = {"small_win", t}]_vars

\* The days on which an evidence row was appended for a user.
EvidenceDays(uid) ==
    {evidence[e].day : e \in {i \in Ids(evidence) : evidence[i].uid = uid}}

C16_OneActivePhase ==
    \A g \in Ids(goals) : Cardinality(get_active_phase(g)) <= 1

\* The rows of a log are still there, unchanged, after the step.
Kept(log) ==
    /\ Len(log') >= Len(log)
    /\ \A i \in Ids(log) : log'[i] = log[i]

\* C17: the evidence log and the stuck-event log are append-only: no step
\* of any behaviour deletes or changes a row either of them holds.
C17_LogsAppendOnly ==
    [][Kept(evidence) /\ Kept(stuck)]_vars

C17_Witness ==
    /\ Len(evidence) >= 2
    /\ Len(stuck) >= 1
    /\ evidence[1].tags # evidence[2].tags

\* C18: the pair choose_candidates returns for a task pool is the same
\* with the low-energy flag set and clear, and the mainline a fresh
\* generation persists is B of that pair when the user's flag is set and A
\* when it is clear.
C18_FlagOnlyPicks ==
    [][((cmd_today(U1) \/ low_energy(U1))
           /\ Len(mainlines') = Len(mainlines) + 1)
       => LET c == ctx'[U1].cands[1]
              chosen == IF users'[U1].low THEN c.B ELSE c.A
              new == mainlines'[Len(mainlines')]
          IN  /\ \A f \in BOOLEAN : choose_candidates(U1, None, f) = {c}
              /\ new.title = chosen.title
              /\ new.task = chosen.task]_vars

C18_Witness ==
    /\ ev.op = "low_energy" /\ ev.branch = "fresh"
    /\ Len(tasks) = MaxTasks
    /\ Len(mainlines) = 2
    /\ ctx[U1].cands[1].A.task # ctx[U1].cands[1].B.task
    /\ mainlines[2].task = ctx[U1].cands[1].B.task
    /\ mainlines[1].task # mainlines[2].task

\* C19: enabling low-energy mode sets the user's flag and creates a new
\* mainline with a new ready micro step, whether or not today already has a
\* mainline; every earlier mainline keeps every field, and today's-mainline
\* lookup returns the new one.
C19_LowEnergyAddsMainline ==
    [][low_energy(U1)
       => LET mid == Len(mainlines')
              sid == Len(steps')
          IN  /\ users'[U1].low
              /\ mid = Len(mainlines) + 1
              /\ Kept(mainlines)
              /\ sid = Len(steps) + 1
              /\ steps'[sid].ml = mid
              /\ steps'[sid].kind = "micro"
              /\ steps'[sid].status = "ready"
              /\ get_today_mainline(U1)' = {mid}]_vars

\* The progression events: start, complete micro, complete upgrade,
\* stuck-type selection, shrink, exit, switch and review finalisation.
Progression(uid) ==
    \/ timer_micro(uid)
    \/ timer_upgrade(uid)
    \/ done_micro(uid)
    \/ done_upgrade(uid)
    \/ \E t \in StuckTypes : st(uid, t)
    \/ shrink(uid)
    \/ exit(uid)
    \/ switch_B(uid)
    \/ \E tag \in ReviewTags : rtag(uid, tag)
    \/ rtag_skip(uid)

\* C20: a progression event received while the session context has no
\* current step or no current mainline completes without an error, and
\* afterwards every step belongs to a mainline.
C20_MissingContextTolerated ==
    [][(Progression(U1)
           /\ (ctx[U1].step_id = None \/ ctx[U1].ml_id = None))
       => /\ ev'.branch # "aborted"
          /\ \A s \in Ids(steps') : steps'[s].ml \in Ids(mainlines')]_vars

\* C21: a turn answers the user only after all of its writes have
\* committed; when a write of the turn fails, the turn gives no answer.
C21_AnswerAfterWrites ==
    [][/\ \A fail \in 0..Len(low_energy_body) :
            (low_energy_turn(U1, fail) /\ ev'.branch # "aborted")
            => LET mid == Len(mainlines')
                   sid == Len(steps')
               IN  /\ users'[U1].low
                   /\ mid = Len(mainlines) + 1
                   /\ mainlines'[mid].task # None
                        => tasks'[mainlines'[mid].task].status = "in_progress"
                   /\ sid = Len(steps) + 1
                   /\ steps'[sid].ml = mid
                   /\ <<U1, today>> \in plans'
       /\ \A fail \in 0..Len(exit_body) :
            (exit_turn(U1, fail) /\ ev'.branch = "deferred")
            => /\ steps' = update_step(ctx[U1].step_id, "deferred")
               /\ links' = create_deferred(U1, ctx[U1].step_id,
                                           ctx[U1].ml_id)
       /\ \A tag \in ReviewTags : \A fail \in 0..Len(finish_review_body) :
            (rtag_turn(U1, tag, fail) /\ ev'.branch # "aborted")
            => /\ Len(evidence') = Len(evidence) + 1
               /\ users'[U1].last = today]_vars

\* The streak write of a finalization failed after its evidence write:
\* the row is there, the streak is not, and the user got no answer.
C21_Witness ==
    /\ ev.op = "rtag" /\ ev.branch = "aborted"
    /\ Len(evidence) = 1
    /\ users[U1].streak = 0
    /\ ev.kb # KbEvidence

\* A review finalization of the user uid: a tag chosen, or skipped.
Finalize(uid) ==
    \E tag \in ReviewTags \cup {"skip"} :
    \E fail \in 0..Len(finish_review_body) : rtag_turn(uid, tag, fail)

\* C22: only a review finalization appends evidence or changes a user's
\* streak count or last progress day, and a finalization changes the
\* streak only after it has appended the evidence row.
C22_OnlyFinalizeRecords ==
    [][/\ evidence' # evidence => \E u \in UserIds : Finalize(u)
       /\ \A u \in UserIds :
            (\/ users'[u].streak # users[u].streak
             \/ users'[u].last # users[u].last)
            => /\ Finalize(u)
               /\ Len(evidence') = Len(evidence) + 1]_vars

C22_Witness ==
    /\ ev.op = "rtag" /\ ev.branch = ""
    /\ Len(evidence) = 2
    /\ users[U1].streak = 1
    /\ users[U1].last = today
    /\ \E s \in Ids(steps) : steps[s].status = "deferred"

\* C23: deleting a task leaves every mainline, those that refer to the
\* deleted task included, and every step as it was.
C23_DeleteTaskKeepsMainlines ==
    [][\A task_id \in 1..MaxTasks :
          td(U1, task_id) => mainlines' = mainlines /\ steps' = steps]_vars

C23_Witness ==
    /\ ev.op = "td"
    /\ \E m \in Ids(mainlines) :
          /\ mainlines[m].task \in Ids(tasks)
          /\ tasks[mainlines[m].task].status = "deleted"
          /\ \E x \in Ids(steps) : steps[x].ml = m

\* What the store and the session contexts hold of the user uid.
Owned(uid) ==
    LET mine == {m \in Ids(mainlines) : mainlines[m].uid = uid}
    IN  [mainlines |-> [m \in mine |-> mainlines[m]],
         steps |-> [x \in {y \in Ids(steps) : steps[y].ml \in mine}
                      |-> steps[x]],
         links |-> SelectSeq(links, LAMBDA l : l.uid = uid),
         evidence |-> SelectSeq(evidence, LAMBDA e : e.uid = uid),
         streak |-> <<users[uid].streak, users[uid].last>>,
         ctx |-> ctx[uid]]

\* C24: however the turns of different users interleave, a turn of one
\* user leaves the mainlines, steps, deferred links, evidence, streak and
\* session context of every other user as they were.
C24_TurnsTouchOwnRows ==
    [][\A u \in UserIds : \A v \in UserIds \ {u} :
          turn(u) => Owned(v)' = Owned(v)]_vars

C24_Witness ==
    /\ ev.op = "cmd_today" /\ ev.branch = "deferred" /\ ev.u = 1
    /\ \E l \in Ids(links) : links[l].uid = 2
    /\ \A u \in UserIds : \E m \in Ids(mainlines) : mainlines[m].uid = u

\* Entry resolution takes the fresh branch: no deferred link, and no live
\* step on a mainline of today.
FreshBranch(uid) ==
    /\ get_deferred(uid) = {}
    /\ \A m \in get_today_mainline(uid) : get_active_step(m) = {}

\* C25: an entry that takes the fresh branch creates exactly one mainline,
\* dated today, with the title and task of the chosen candidate, sets that
\* task (if any) to in_progress, and creates exactly one ready micro step
\* on that mainline, which becomes current.
C25_FreshCreatesMainlineAndStep ==
    [][(cmd_today(U1) /\ FreshBranch(U1))
       => LET mid == Len(mainlines')
              sid == Len(steps')
              c == ctx'[U1].cands[1]
              chosen == IF users[U1].low THEN c.B ELSE c.A
          IN  /\ mid = Len(mainlines) + 1
              /\ Kept(mainlines)
              /\ mainlines'[mid].uid = U1
              /\ mainlines'[mid].date = today
              /\ mainlines'[mid].title = chosen.title
              /\ mainlines'[mid].task = chosen.task
              /\ chosen.task # None
                   => tasks'[chosen.task].status = "in_progress"
              /\ sid = Len(steps) + 1
              /\ Kept(steps)
              /\ steps'[sid].ml = mid
              /\ steps'[sid].kind = "micro"
              /\ steps'[sid].status = "ready"
              /\ ctx'[U1].ml_id = mid
              /\ ctx'[U1].step_id = sid]_vars

\* C26: the switch is offered only while the low-energy flag is unset and
\* the current step is not started; it gives the current mainline the
\* title of candidate B and creates one ready micro step on that mainline,
\* which becomes current; it creates no mainline.
C26_SwitchRetitlesAndRestarts ==
    [][(Offered("switch_B") /\ switch_B(U1))
       => LET mid == ctx[U1].ml_id
              sid == Len(steps')
          IN  /\ ~users[U1].low
              /\ ctx[U1].step_id \in Ids(steps)
              /\ steps[ctx[U1].step_id].status = "ready"
              /\ Len(mainlines') = Len(mainlines)
              /\ mid \in Ids(mainlines)
              /\ mainlines'[mid].title = ctx[U1].cands[1].B.title
              /\ sid = Len(steps) + 1
              /\ steps'[sid].ml = mid
              /\ steps'[sid].kind = "micro"
              /\ steps'[sid].status = "ready"
              /\ ctx'[U1].step_id = sid
              /\ ctx'[U1].ml_id = mid]_vars

\* C27: a switch leaves the status of every existing step, the task
\* reference of every mainline and the status of every task as they were.
C27_SwitchKeepsStatuses ==
    [][switch_B(U1)
       => /\ Kept(steps)
          /\ tasks' = tasks
          /\ Len(mainlines') = Len(mainlines)
          /\ \A m \in Ids(mainlines) :
                mainlines'[m].task = mainlines[m].task]_vars

\* After a switch: the mainline has B's title and still refers to A's
\* task, which is in progress while B's is not, and the old step is ready.
C27_Witness ==
    /\ ev.op = "switch_B" /\ ev.branch = "switched"
    /\ LET c == ctx[U1].cands[1]
           m == ctx[U1].ml_id
       IN  /\ mainlines[m].title = c.B.title
           /\ mainlines[m].task = c.A.task
           /\ c.A.task # c.B.task
           /\ tasks[c.A.task].status = "in_progress"
           /\ tasks[c.B.task].status = "not_started"
           /\ \E x \in Ids(steps) :
                 /\ x # ctx[U1].step_id
                 /\ steps[x].ml = m
                 /\ steps[x].status = "ready"

\* C28: resolving a stuck report while a current step S exists appends
\* exactly one stuck event, for S and with the selected type and emotion,
\* creates exactly one ready micro step on the current mainline, which
\* becomes current, and leaves the status of S as it was.
C28_StuckRestarts ==
    [][\A t \in StuckTypes :
          (st(U1, t) /\ ctx[U1].step_id \in Ids(steps))
          => LET sid == Len(steps')
                 new == stuck'[Len(stuck')]
             IN  /\ Len(stuck') = Len(stuck) + 1
                 /\ Kept(stuck)
                 /\ new.step = ctx[U1].step_id
                 /\ new.type = t
                 /\ new.emo = ctx[U1].emo
                 /\ new.emo \in Emotions
                 /\ sid = Len(steps) + 1
                 /\ Kept(steps)
                 /\ steps'[sid].ml = ctx[U1].ml_id
                 /\ steps'[sid].kind = "micro"
                 /\ steps'[sid].status = "ready"
                 /\ ctx'[U1].step_id = sid]_vars

\* C29: starting a step changes only the status of the current step, to
\* executing: it creates no mainline, step, deferred link, stuck event or
\* evidence, changes no other step, and never moves a step that is done or
\* deferred to executing.
C29_StartOnlyStartsReady ==
    [][(timer_micro(U1) \/ timer_upgrade(U1))
       => LET sid == ctx[U1].step_id
          IN  /\ mainlines' = mainlines
              /\ links' = links
              /\ stuck' = stuck
              /\ evidence' = evidence
              /\ Len(steps') = Len(steps)
              /\ \A x \in Ids(steps) : x # sid => steps'[x] = steps[x]
              /\ sid \in Ids(steps)
                   => /\ steps[sid].status \notin {"done", "deferred"}
                      /\ steps'[sid] =
                            [steps[sid] EXCEPT !.status = "executing"]]_vars

\* The text of instr before its first sep: the prefix without sep that
\* ends at a sep, or at the end of instr.
TextBefore(instr, sep) ==
    CHOOSE p \in {SubSeq(instr, 1, k) : k \in 0..Len(instr)} :
        /\ \A i \in DOMAIN p : p[i] # sep
        /\ Len(p) = Len(instr) \/ instr[Len(p) + 1] = sep

\* The first clause of instr: the text before the first comma, or without
\* a comma the text before the first full stop.
Clause(instr) ==
    IF \E i \in DOMAIN instr : instr[i] = ","
    THEN TextBefore(instr, ",") ELSE TextBefore(instr, ".")

\* C30: a shrink on a current step with instruction I creates one micro
\* step of 2 minutes on the current mainline, whatever the size and kind of
\* the current step, with the fixed wrapper around the first clause of I as
\* its instruction, and makes it current; the first clause of
\* "read chapter 1, write summary" is "read chapter 1".
C30_ShrinkToFirstClause ==
    [][LET sid == ctx[U1].step_id
           new == steps'[Len(steps')]
       IN  (shrink(U1) /\ sid \in Ids(steps) /\ ctx[U1].ml_id # None)
           => /\ Len(steps') = Len(steps) + 1
              /\ Kept(steps)
              /\ new.ml = ctx[U1].ml_id
              /\ new.kind = "micro"
              /\ new.dur = 2
              /\ new.status = "ready"
              /\ new.instr = <<"only_one_thing:">>
                               \o Clause(steps[sid].instr)
                               \o <<".", "done_is_a_win", ".">>
              /\ ctx'[U1].step_id = Len(steps')
              /\ shrink_instruction(
                     <<"read_chapter_1", ",", "write_summary">>)
                 = <<"only_one_thing:", "read_chapter_1", ".",
                     "done_is_a_win", ".">>]_vars

\* An 8-minute upgrade step was shrunk: the new current step is a micro
\* step of 2 minutes around the upgrade's first clause, which has no comma.
C30_Witness ==
    /\ ev.op = "shrink" /\ ev.branch = "shrunk"
    /\ \E x \in Ids(steps) :
          /\ steps[x].kind = "upgrade"
          /\ steps[x].dur = UpgradeMinutes
          /\ \A i \in DOMAIN steps[x].instr : steps[x].instr[i] # ","
          /\ steps[ctx[U1].step_id].dur = 2
          /\ steps[ctx[U1].step_id].kind = "micro"
          /\ steps[ctx[U1].step_id].instr =
                <<"only_one_thing:">> \o Clause(steps[x].instr)
                   \o <<".", "done_is_a_win", ".">>

\* C31: the step an entry adopts on the live-step branch is the one the
\* user left off at: no step of its mainline was created after it (as a
\* stuck, shrink or switch transition does when it supersedes the current
\* step).
C31_AdoptsWhereLeftOff ==
    [][(cmd_today(U1) /\ ev'.branch = "live")
       => \A y \in Ids(steps) :
             steps[y].ml = ctx'[U1].ml_id => y <= ctx'[U1].step_id]_vars

\* C32: on every path into a review finalization the evidence text is
\* built from the title of the current mainline and at most the first 40
\* units of the instruction of the step just completed, a step whose
\* status is done.
C32_EvidenceFromCompletedStep ==
    [][((\E tag \in ReviewTags : rtag(U1, tag)) \/ rtag_skip(U1))
       => LET sid == ctx[U1].step_id
              mid == ctx[U1].ml_id
              new == evidence'[Len(evidence')]
          IN  /\ sid \in Ids(steps)
              /\ mid \in Ids(mainlines)
              /\ steps[sid].status = "done"
              /\ new.text = <<"done:">> \o mainlines[mid].title
                              \o <<"->">> \o Cut(steps[sid].instr, 40)]_vars

\* C33: today's-mainline lookup returns the mainline created last among
\* the user's mainlines dated today, so that once a second mainline is
\* created on a day every later lookup returns the newer one.
C33_LookupReturnsNewest ==
    \A u \in UserIds :
       LET mine == {m \in Ids(mainlines) :
                       mainlines[m].uid = u /\ mainlines[m].date = today}
       IN  \A m \in get_today_mainline(u) : \A k \in mine : k <= m

\* The answers that do not conform to the schema of the kind, and those
\* that count as a failed attempt.
SchemaInvalid == {"not_json", "no_key", "partial", "malformed"}
Failed == SchemaInvalid \cup {"error"}

\* C34: a content request invokes the generator at most twice; it retries
\* when the first answer is schema-invalid; when both attempts fail it
\* returns the fixed fallback of the kind (for interventions, of the stuck
\* type).
C34_OneRetryThenFallback ==
    (reply # NoReply /\ reply.client)
    => /\ reply.calls <= 2
       /\ reply.answers[1] \in SchemaInvalid => reply.calls = 2
       /\ (reply.answers[1] \in Failed /\ reply.answers[2] \in Failed)
          => reply.content = request(reply.kind, "fallback", reply.arg)


\* C35: when two finalize turns of one user on one day interleave at the
\* reads and writes of update_streak, the user's streak ends at most 1
\* above what it was before them (the smaller of the two values read).
C35_InterleavedStreakAtMostOne ==
    (/\ \A w \in Workers : running[w].pc = "done"
     /\ running[1].uid = running[2].uid)
    => users[running[1].uid].streak
          <= Min(running[1].u.streak, running[2].u.streak) + 1

\* Both calls read the row before either wrote it, and both have written.
C35_Witness ==
    /\ \A w \in Workers : running[w].pc = "done"
    /\ running[1].uid = running[2].uid
    /\ running[1].u = running[2].u
    /\ running[1].u.last # today
    /\ users[running[1].uid].streak = running[1].u.streak + 1

\* C36: every step whose status is deferred is pointed at by a deferred
\* link of the user who owns its mainline.
C36_DeferredStepHasLink ==
    \A s \in Ids(steps) :
        steps[s].status = "deferred"
        => \E l \in Ids(links) :
              /\ links[l].step = s
              /\ links[l].uid = mainlines[steps[s].ml].uid

\* C37: a step whose status is done keeps that status in every later turn.
C37_DoneIsFinal ==
    [][\A s \in Ids(steps) :
          steps[s].status = "done" => steps'[s].status = "done"]_vars

\* C38: after every turn, the step and the mainline that the session
\* context names (when it names both) belong together, and so do the step
\* and the mainline of every deferred link.
C38_ContextStepOfContextMainline ==
    /\ \A u \in UserIds :
          (ctx[u].step_id # None /\ ctx[u].ml_id # None)
          => /\ ctx[u].step_id \in Ids(steps)
             /\ steps[ctx[u].step_id].ml = ctx[u].ml_id
    /\ \A l \in Ids(links) :
          /\ links[l].step \in Ids(steps)
          /\ steps[links[l].step].ml = links[l].ml

\* The turn just taken is a fresh generation (_gen_today ran, to its end
\* or to the statement that raised).
Generated ==
    /\ ev'.op \in {"cmd_today", "today_fresh", "low_energy"}
    /\ ev'.branch \in {"fresh", "aborted"}

\* C39: a turn that is not a task management turn (tt_, td_) changes the
\* status of a task only when it is a fresh generation, and then only to
\* in_progress; completing steps and finalizing the review leave every
\* task as it was.
C39_OnlyGenerationTouchesTasks ==
    [][ev'.op \notin {"tt", "td"}
       => /\ \A t \in Ids(tasks) :
                tasks'[t].status # tasks[t].status
                => Generated /\ tasks'[t].status = "in_progress"
          /\ ev'.op \in {"done_micro", "done_upgrade", "rtag"}
             => tasks' = tasks]_vars

\* The review was finalized on a mainline whose task is in_progress, its
\* step done.
C39_Witness ==
    /\ ev.op = "rtag"
    /\ ev.branch # "aborted"
    /\ evidence # <<>>
    /\ ctx[U1].ml_id \in Ids(mainlines)
    /\ mainlines[ctx[U1].ml_id].task \in Ids(tasks)
    /\ tasks[mainlines[ctx[U1].ml_id].task].status = "in_progress"
    /\ \E s \in Ids(steps) :
          steps[s].ml = ctx[U1].ml_id /\ steps[s].status = "done"

\* A fresh entry has just been resolved for U1, with room in the tables for
\* the rest of the pass.
FreshPass(n) ==
    /\ ev.op = "cmd_today"
    /\ ev.branch = "fresh"
    /\ Len(evidence) = n
    /\ Len(steps) < MaxSteps
    /\ Len(evidence) < MaxEvidence

\* C40: from a fresh entry, when the user only starts and completes the
\* current step and then answers the review question, and every turn runs
\* to its end, the review is eventually finalized with exactly one evidence
\* row more than at the entry, whether the generator succeeded or fell back.
C40_HappyPathFinalizes ==
    \A n \in 0..MaxEvidence :
        FreshPass(n) ~> (ev.op = "rtag" /\ Len(evidence) = n + 1)

\* A pass was finalized with one evidence row, on a step the generator
\* supplied and a step of the fallback.
C40_Witness ==
    /\ ev.op = "rtag"
    /\ Len(evidence) = 1
    /\ \E s \in Ids(steps) :
          steps[s].status = "done" /\ steps[s].crit = "generated"
    /\ \E s \in Ids(steps) :
          steps[s].status = "done" /\ steps[s].crit # "generated"
====
